---- MODULE Spec2Model ----
(***************************************************************************)
(* Model of app_v3.py: the shared Playwright browser (init_playwright,     *)
(* close_playwright, get_browser_context), the cache_result decorator      *)
(* around query_data, the /api/query and /health handlers, and cleanup.    *)
(* Request threads run the handlers concurrently; every action is one      *)
(* step of one thread, cut at the points where it touches shared state.    *)
(* Spec is the browser manager under queries, health checks and cleanup;   *)
(* SpecCache is the cache_result decorator around a function that returns  *)
(* or raises, under a moving clock.                                        *)
(* SpecExtract is query_data reading one results page, SpecKey the        *)
(* derivation of cache_key, SpecApi the validation of /api/query requests  *)
(* in front of the cached call, SpecMain the main program from start-up to *)
(* interpreter exit.                                                       *)
(***************************************************************************)
EXTENDS Integers, FiniteSets, Sequences, TLC

\* ---------------------------------------------------------------- bounds
NumThreads == 2
NumKeys == 2
MaxLaunch == 2
MaxFetch == 2
MaxTicks == 2

\* config_v3.py: PERFORMANCE['cache_timeout'], read by CACHE_CONFIG['timeout']
\* before the per-environment overrides are applied.
Timeout == 300

Threads == 1..NumThreads
Keys == 1..NumKeys
NoThread == 0
None == 0

\* The clock advances by one second or by a whole freshness window, so that
\* ages below, equal to and above the timeout all occur.
TickSteps == {1, Timeout}

VARIABLES
    playwright_instance,  \* None or 1 (the running automation runtime)
    browser_instance,     \* None or the id of the launched browser
    is_connected,         \* browser_instance.is_connected()
    launches,             \* number of browsers launched so far
    browser_lock,         \* holder of browser_lock, or NoThread
    query_cache,          \* cache_key -> <<result, timestamp>>
    now,                  \* time.time()
    ticks,                \* number of clock advances so far
    nfetch,               \* invocations of the wrapped query_data so far
    pc,                   \* position of each thread
    op,                   \* handler each thread is running
    key,                  \* cache_key of the thread's query
    fid,                  \* invocation number of the thread's fetch
    cause,                \* why the thread's query_data is failing
    status,               \* HTTP status of the thread's response
    result,               \* result the cached call returned
    stale,                \* instance get_browser_context found unusable
    found,                \* what the thread's cache look-up found
    ctx,                  \* browser the thread's open context belongs to
    page,                 \* whether the thread's page is open
    phase,                \* position of query_data in reading the results page
    field_texts,          \* the four aggregate texts text_content returned
    total_stats,          \* the four aggregates parsed from them
    rows,                 \* the table rows read so far, each a sequence of cells
    results,              \* the records built from them
    call_args,            \* the argument tuples of two calls of query_data
    cache_keys,           \* the cache_key cache_result derives for each
    main_pc,              \* position of the main program
    cleanups              \* calls of cleanup() made by the main program

vars == <<playwright_instance, browser_instance, is_connected, launches,
          browser_lock, query_cache, now, ticks, nfetch, pc, op, key, fid,
          cause, status, result, stale, found, ctx, page, phase,
          field_texts, total_stats, rows, results, call_args, cache_keys,
          main_pc, cleanups>>

browserVars == <<playwright_instance, browser_instance, is_connected, launches>>
cacheVars == <<query_cache, nfetch>>
clockVars == <<now, ticks>>
ctxVars == <<ctx, page>>
localVars == <<found>>
extractVars == <<phase, field_texts, total_stats, rows, results>>
keyVars == <<call_args, cache_keys>>
mainVars == <<main_pc, cleanups>>
extVars == <<extractVars, keyVars, mainVars>>
appVars == <<browserVars, browser_lock, cacheVars, clockVars, pc, op, key, fid,
             cause, status, result, stale, localVars, ctxVars>>

\* Module load, lines 49-55: no runtime, no browser, an empty cache, no
\* request in progress.
InitApp ==
    /\ playwright_instance = None
    /\ browser_instance = None
    /\ is_connected = FALSE
    /\ launches = 0
    /\ browser_lock = NoThread
    /\ query_cache = << >>
    /\ now = 0
    /\ ticks = 0
    /\ nfetch = 0
    /\ pc = [t \in Threads |-> "idle"]
    /\ op = [t \in Threads |-> "none"]
    /\ key = [t \in Threads |-> 0]
    /\ fid = [t \in Threads |-> 0]
    /\ cause = [t \in Threads |-> "none"]
    /\ status = [t \in Threads |-> 0]
    /\ result = [t \in Threads |-> 0]
    /\ stale = [t \in Threads |-> None]
    /\ found = [t \in Threads |-> "none"]
    /\ ctx = [t \in Threads |-> None]
    /\ page = [t \in Threads |-> FALSE]

\* No results page is being read.
ExtractIdle ==
    /\ phase = "idle"
    /\ field_texts = << >>
    /\ total_stats = << >>
    /\ rows = << >>
    /\ results = << >>

\* No cache_key is being derived.
KeyIdle ==
    /\ call_args = << >>
    /\ cache_keys = << >>

\* The server is serving requests (app.run, or a WSGI server that imported
\* the module).
MainServing ==
    /\ main_pc = "serving"
    /\ cleanups = 0

Init ==
    /\ InitApp
    /\ ExtractIdle
    /\ KeyIdle
    /\ MainServing

\* ------------------------------------------------------- error translation
\* Exception class raised for each failure cause of query_data.
ExcClass(c) ==
    CASE c = "nav_timeout" -> "PlaywrightTimeoutError"
      [] c = "marker_absent" -> "PlaywrightTimeoutError"
      [] c = "launch_fail" -> "Exception"
      [] c = "parse_error" -> "ValueError"
      [] OTHER -> "Exception"

\* error_handler: the status it gives an exception that reaches it.
ErrorHandlerStatus(exc) ==
    IF exc = "PlaywrightTimeoutError" THEN 408 ELSE 500

\* api_query's own try/except around query_data catches every Exception
\* subclass, so nothing query_data raises reaches error_handler.
CaughtByApiQuery(exc) ==
    exc \in {"PlaywrightTimeoutError", "ValueError", "Exception"}

ApiQueryStatus(c) ==
    IF c = "none" THEN 200
    ELSE IF CaughtByApiQuery(ExcClass(c)) THEN 500
    ELSE ErrorHandlerStatus(ExcClass(c))

\* --------------------------------------------------------------- the cache
\* The comparison of line 137 turned round.
IsFreshReversed(ts, t) == t - ts > Timeout

\* wrapper line 137: the entry is served when its age is below the timeout.
IsFresh(ts, t) == t - ts < Timeout

\* The comparison of line 150 with the boundary included.
IsExpiredAtTimeout(ts, t) == t - ts >= Timeout

\* wrapper line 150: the entries the clean-up after a store removes.
IsExpired(ts, t) == t - ts > Timeout

HasEntry(k) == k \in DOMAIN query_cache

\* A store that keeps the entry a key already has (dict.setdefault).
StoreKeepingOld(cache, k, r, t) ==
    LET put == [x \in DOMAIN cache \cup {k} |->
                   IF x \in DOMAIN cache THEN cache[x] ELSE <<r, t>>]
        keep == {x \in DOMAIN put : ~(t - put[x][2] > Timeout)}
    IN [x \in keep |-> put[x]]

\* A store without the clean-up of lines 148-152.
StoreWithoutSweep(cache, k, r, t) ==
    [x \in DOMAIN cache \cup {k} |-> IF x = k THEN <<r, t>> ELSE cache[x]]

\* wrapper lines 146-152: store, then drop every expired entry.
StoreAndEvict(cache, k, r, t) ==
    LET put == [x \in DOMAIN cache \cup {k} |->
                   IF x = k THEN <<r, t>> ELSE cache[x]]
        keep == {x \in DOMAIN put : ~IsExpired(put[x][2], t)}
    IN [x \in keep |-> put[x]]

\* ------------------------------------------------------ end of a handler
\* The handler of thread t answers with status s, having got result r from
\* the cached call or the exception of cause c.
Respond(t, s, r, c) ==
    /\ pc' = [pc EXCEPT ![t] = "done"]
    /\ status' = [status EXCEPT ![t] = s]
    /\ result' = [result EXCEPT ![t] = r]
    /\ cause' = [cause EXCEPT ![t] = c]
    /\ fid' = [fid EXCEPT ![t] = 0]
    /\ stale' = [stale EXCEPT ![t] = None]

\* An exception c leaves get_browser_context / init_playwright in thread t:
\* the with-block releases browser_lock and the handler translates it
\* (api_query lines 342-349, health_check lines 381-386).
RaiseFromManager(t, c) ==
    /\ browser_lock' = NoThread
    /\ Respond(t, IF op[t] = "query" THEN ApiQueryStatus(c) ELSE 500, 0, c)

\* init_playwright returned normally to its caller in thread t:
\* get_browser_context goes on to line 117, health_check to lines 380-386.
InitReturns(t) ==
    IF op[t] = "query"
    THEN /\ pc' = [pc EXCEPT ![t] = "new_context"]
         /\ UNCHANGED <<browser_lock, status, result, cause, fid, stale>>
    ELSE /\ browser_lock' = NoThread
         /\ Respond(t, 200, 0, "none")

\* ------------------------------------------------------- the cached call
\* A miss that joins the call another thread has in flight for the key.
InvocationShared(t, k) ==
    IF \E u \in Threads : u # t /\ pc[u] = "call" /\ key[u] = k
    THEN nfetch
    ELSE nfetch + 1

\* wrapper line 142: a miss of thread t on key k makes its own call of the
\* wrapped function, whoever else is calling it; the value is the number
\* of that invocation.
InvocationOnMiss(t, k) == nfetch + 1

\* wrapper lines 135-137: what the look-up of k finds.
Found(k) ==
    IF ~HasEntry(k) THEN "absent"
    ELSE IF IsFresh(query_cache[k][2], now) THEN "hit" ELSE "expired"

\* wrapper line 131 to 142: the look-up for cache_key k under cache_lock;
\* a hit returns the stored result, a miss calls the wrapped function.
Lookup(t, k) ==
    /\ pc[t] = "idle"
    /\ op' = [op EXCEPT ![t] = "query"]
    /\ key' = [key EXCEPT ![t] = k]
    /\ found' = [found EXCEPT ![t] = Found(k)]
    /\ IF Found(k) = "hit"
       THEN /\ Respond(t, 200, query_cache[k][1], "none")
            /\ UNCHANGED nfetch
       ELSE /\ nfetch < MaxFetch
            /\ nfetch' = InvocationOnMiss(t, k)
            /\ fid' = [fid EXCEPT ![t] = InvocationOnMiss(t, k)]
            /\ pc' = [pc EXCEPT ![t] = "call"]
            /\ UNCHANGED <<status, result, cause, stale>>
    /\ UNCHANGED <<browserVars, browser_lock, query_cache, clockVars, extVars, ctxVars>>

\* The store block of lines 144-152 placed in a finally clause: it runs
\* although the wrapped function raised.
FetchRaisesStoring(t) ==
    /\ pc[t] = "call"
    /\ query_cache' = StoreAndEvict(query_cache, key[t], 0, now)
    /\ Respond(t, ApiQueryStatus("other"), 0, "other")
    /\ UNCHANGED <<browserVars, browser_lock, nfetch, clockVars, extVars, localVars,
                   op, key, ctxVars>>

\* wrapper line 142 seen from the decorator: the wrapped function raises;
\* nothing is stored and the exception goes to api_query.
FetchRaises(t) ==
    /\ pc[t] = "call"
    /\ Respond(t, ApiQueryStatus("other"), 0, "other")
    /\ UNCHANGED <<browserVars, browser_lock, cacheVars, clockVars, extVars, localVars, op, key,
                   ctxVars>>

\* wrapper lines 142-154: the wrapped function returns its result, which
\* is stored, and the expired entries are dropped, under cache_lock.
Store(t) ==
    /\ pc[t] = "call"
    /\ query_cache' = StoreAndEvict(query_cache, key[t], fid[t], now)
    /\ Respond(t, 200, fid[t], "none")
    /\ UNCHANGED <<browserVars, browser_lock, nfetch, clockVars, extVars, localVars, op, key,
                   ctxVars>>

\* ------------------------------------------------------------- query_data
\* api_query line 340 on a miss: the wrapper calls query_data.
CallQueryData(t) ==
    /\ pc[t] = "idle"
    /\ op' = [op EXCEPT ![t] = "query"]
    /\ pc' = [pc EXCEPT ![t] = "call"]
    /\ UNCHANGED <<browserVars, browser_lock, cacheVars, clockVars, extVars, localVars, key, fid,
                   cause, status, result, stale, ctxVars>>

\* get_browser_context line 114: the instance cannot give a context.
NeedsInit == browser_instance = None \/ ~is_connected

\* get_browser_context without the with-block: nobody waits.
LockIgnored(t) == TRUE

\* get_browser_context line 113: the caller waits for browser_lock.
LockFree(t) == browser_lock = NoThread

\* get_browser_context lines 113-115: take browser_lock, check the instance.
AcquireContext(t) ==
    /\ pc[t] = "call"
    /\ LockFree(t)
    /\ browser_lock' = t
    /\ IF NeedsInit
       THEN /\ pc' = [pc EXCEPT ![t] = "init"]
            /\ stale' = [stale EXCEPT ![t] = browser_instance]
       ELSE /\ pc' = [pc EXCEPT ![t] = "new_context"]
            /\ UNCHANGED stale
    /\ UNCHANGED <<browserVars, cacheVars, clockVars, extVars, localVars, op, key, fid, cause,
                   status, result, ctxVars>>

\* init_playwright line 62: there is a runtime to start.
MustStart == playwright_instance = None

\* init_playwright lines 62-65: nothing to do when the runtime handle is
\* set; otherwise start the runtime, which may fail.
InitStart(t) ==
    /\ pc[t] = "init"
    /\ IF ~MustStart
       THEN /\ InitReturns(t)
            /\ UNCHANGED playwright_instance
       ELSE \/ /\ playwright_instance' = 1
               /\ pc' = [pc EXCEPT ![t] = "launch"]
               /\ UNCHANGED <<browser_lock, status, result, cause, fid, stale>>
            \/ /\ RaiseFromManager(t, "launch_fail")
               /\ UNCHANGED playwright_instance
    /\ UNCHANGED <<browser_instance, is_connected, launches, cacheVars,
                   clockVars, extVars, localVars, op, key, ctxVars>>

\* init_playwright lines 81-83: the handler of a failed launch stops the
\* runtime and clears the handle h; when stop() raises, line 83 is skipped.
HandleAfterFailedLaunch(h, stopRaised) == IF stopRaised THEN h ELSE None

\* init_playwright lines 68-84: launch the browser; on failure stop the
\* runtime and re-raise.
Launch(t) ==
    /\ pc[t] = "launch"
    /\ \/ /\ launches < MaxLaunch
          /\ launches' = launches + 1
          /\ browser_instance' = launches + 1
          /\ is_connected' = TRUE
          /\ InitReturns(t)
          /\ UNCHANGED playwright_instance
       \/ /\ \E stopRaised \in BOOLEAN :
                playwright_instance' =
                    HandleAfterFailedLaunch(playwright_instance, stopRaised)
          /\ RaiseFromManager(t, "launch_fail")
          /\ UNCHANGED <<browser_instance, is_connected, launches>>
    /\ UNCHANGED <<cacheVars, clockVars, extVars, localVars, op, key, ctxVars>>

\* get_browser_context lines 117-122: create the context, leave the lock;
\* new_context raises on a missing or disconnected browser.
NewContext(t) ==
    /\ pc[t] = "new_context"
    /\ IF browser_instance = None \/ ~is_connected
       THEN /\ RaiseFromManager(t, "other")
            /\ UNCHANGED ctx
       ELSE /\ ctx' = [ctx EXCEPT ![t] = browser_instance]
            /\ browser_lock' = NoThread
            /\ pc' = [pc EXCEPT ![t] = "in_context"]
            /\ stale' = [stale EXCEPT ![t] = None]
            /\ UNCHANGED <<status, result, cause, fid>>
    /\ UNCHANGED <<browserVars, cacheVars, clockVars, extVars, localVars, op, key, page>>

\* The browser the context of t was made from is still running.
ContextAlive(t) == ctx[t] = browser_instance /\ is_connected

RunOutcomes == {"none", "nav_timeout", "marker_absent", "parse_error"}

\* query_data lines 209-259: open the page (which fails when the browser is
\* gone), then navigate, fill, submit, wait for the results and extract.
RunPage(t) ==
    /\ pc[t] = "in_context"
    /\ IF ContextAlive(t)
       THEN /\ page' = [page EXCEPT ![t] = TRUE]
            /\ \E c \in RunOutcomes : cause' = [cause EXCEPT ![t] = c]
       ELSE /\ cause' = [cause EXCEPT ![t] = "other"]
            /\ UNCHANGED page
    /\ pc' = [pc EXCEPT ![t] = "leave"]
    /\ UNCHANGED <<browserVars, browser_lock, cacheVars, clockVars, extVars, localVars, op, key,
                   fid, status, result, stale, ctx>>

\* query_data lines 260-262: the finally block closes the page p, whatever
\* the outcome c of the try block.
PageAfterFinally(p, c) == FALSE

\* A context closed at the end of the body only, not on an exception.
ContextLeftOpenOnError(x, c) == IF c = "none" THEN None ELSE x

\* query_data line 207: leaving the with-block closes the context x,
\* whatever the outcome c of its body.
ContextAfterExit(x, c) == None

\* query_data lines 260-288: close the page, leave the with-block; then
\* return the result, or let the exception pass to api_query.
LeaveContext(t) ==
    /\ pc[t] = "leave"
    /\ page' = [page EXCEPT ![t] = PageAfterFinally(page[t], cause[t])]
    /\ ctx' = [ctx EXCEPT ![t] = ContextAfterExit(ctx[t], cause[t])]
    /\ Respond(t, ApiQueryStatus(cause[t]), 0, cause[t])
    /\ UNCHANGED <<browserVars, browser_lock, cacheVars, clockVars, extVars, localVars, op, key>>

\* ---------------------------------------------------------------- /health
\* health_check line 370: the unlocked look at the shared instance.
Healthy == browser_instance # None /\ is_connected

\* health_check lines 353-375, 385-386.
HealthCheck(t) ==
    /\ pc[t] = "idle"
    /\ op' = [op EXCEPT ![t] = "health"]
    /\ IF Healthy
       THEN Respond(t, 200, 0, "none")
       ELSE /\ pc' = [pc EXCEPT ![t] = "h_lock"]
            /\ UNCHANGED <<status, result, cause, fid, stale>>
    /\ UNCHANGED <<browserVars, browser_lock, cacheVars, clockVars, extVars, localVars, key,
                   ctxVars>>

\* health_check lines 377-378: take browser_lock, call close_playwright.
HealthLock(t) ==
    /\ pc[t] = "h_lock"
    /\ browser_lock = NoThread
    /\ browser_lock' = t
    /\ pc' = [pc EXCEPT ![t] = "close_lock"]
    /\ UNCHANGED <<browserVars, cacheVars, clockVars, extVars, localVars, op, key, fid, cause,
                   status, result, stale, ctxVars>>

\* ------------------------------------------------- cleanup, close_playwright
\* cleanup lines 404-407.
Cleanup(t) ==
    /\ pc[t] = "idle"
    /\ op' = [op EXCEPT ![t] = "cleanup"]
    /\ pc' = [pc EXCEPT ![t] = "close_lock"]
    /\ UNCHANGED <<browserVars, browser_lock, cacheVars, clockVars, extVars, localVars, key, fid,
                   cause, status, result, stale, ctxVars>>

\* close_playwright line 91: take the (non-reentrant) browser_lock.
CloseLock(t) ==
    /\ pc[t] = "close_lock"
    /\ browser_lock = NoThread
    /\ browser_lock' = t
    /\ pc' = [pc EXCEPT ![t] = "close_browser"]
    /\ UNCHANGED <<browserVars, cacheVars, clockVars, extVars, localVars, op, key, fid, cause,
                   status, result, stale, ctxVars>>

\* close_playwright with the handle cleared in the try block, not in a
\* finally block.
HandleKeptOnError(h, raised) == IF raised THEN h ELSE None

\* close_playwright lines 93-98 and 101-106: the exception of close() or
\* stop() is logged and the finally block clears the handle h either way.
HandleAfterClose(h, raised) == None

\* close_playwright lines 92-98: close the browser if there is one.
CloseBrowser(t) ==
    /\ pc[t] = "close_browser"
    /\ IF browser_instance = None
       THEN UNCHANGED <<browser_instance, is_connected>>
       ELSE \E raised \in BOOLEAN :
              /\ browser_instance' = HandleAfterClose(browser_instance, raised)
              /\ is_connected' = (raised /\ is_connected /\ browser_instance' # None)
    /\ pc' = [pc EXCEPT ![t] = "close_pw"]
    /\ UNCHANGED <<playwright_instance, launches, browser_lock, cacheVars,
                   clockVars, extVars, localVars, op, key, fid, cause, status, result, stale,
                   ctxVars>>

\* close_playwright lines 100-106: stop the runtime if there is one, leave
\* the lock; cleanup is then over, health_check goes on to init_playwright
\* (line 379).
CloseRuntime(t) ==
    /\ pc[t] = "close_pw"
    /\ IF playwright_instance = None
       THEN UNCHANGED playwright_instance
       ELSE \E raised \in BOOLEAN :
              playwright_instance' = HandleAfterClose(playwright_instance, raised)
    /\ browser_lock' = NoThread
    /\ IF op[t] = "health"
       THEN /\ pc' = [pc EXCEPT ![t] = "init"]
            /\ UNCHANGED <<status, result, cause, fid, stale>>
       ELSE Respond(t, 0, 0, "none")
    /\ UNCHANGED <<browser_instance, is_connected, launches, cacheVars,
                   clockVars, extVars, localVars, op, key, ctxVars>>

\* --------------------------------------------------------------- the rest
\* The thread takes the next request.
Finish(t) ==
    /\ pc[t] = "done"
    /\ pc' = [pc EXCEPT ![t] = "idle"]
    /\ op' = [op EXCEPT ![t] = "none"]
    /\ key' = [key EXCEPT ![t] = 0]
    /\ cause' = [cause EXCEPT ![t] = "none"]
    /\ status' = [status EXCEPT ![t] = 0]
    /\ result' = [result EXCEPT ![t] = 0]
    /\ found' = [found EXCEPT ![t] = "none"]
    /\ UNCHANGED <<browserVars, browser_lock, cacheVars, clockVars, extVars, fid, stale,
                   ctxVars>>

\* The browser process dies or loses its connection.
Disconnect ==
    /\ browser_instance # None
    /\ is_connected
    /\ is_connected' = FALSE
    /\ UNCHANGED <<playwright_instance, browser_instance, launches,
                   browser_lock, cacheVars, clockVars, extVars, localVars, pc, op, key, fid, cause,
                   status, result, stale, ctxVars>>

\* Time passes.
Tick(d) ==
    /\ ticks < MaxTicks
    /\ ticks' = ticks + 1
    /\ now' = now + d
    /\ UNCHANGED <<browserVars, browser_lock, cacheVars, pc, op, key, fid,
                   cause, status, result, stale, localVars, ctxVars, extVars>>

\* One step of a request thread through query_data, /health or cleanup.
Step(t) ==
    \/ CallQueryData(t)
    \/ AcquireContext(t)
    \/ InitStart(t)
    \/ Launch(t)
    \/ NewContext(t)
    \/ RunPage(t)
    \/ LeaveContext(t)
    \/ HealthCheck(t)
    \/ HealthLock(t)
    \/ Cleanup(t)
    \/ CloseLock(t)
    \/ CloseBrowser(t)
    \/ CloseRuntime(t)
    \/ Finish(t)

\* The browser manager under concurrent requests and browser crashes.
Next ==
    \/ \E t \in Threads : Step(t)
    \/ Disconnect

Spec == Init /\ [][Next]_vars

\* The threads are scheduled fairly, and a thread waiting for a lock that
\* is released again and again gets it.
FairSpec == Spec /\ \A t \in Threads : SF_vars(Step(t))

\* One step of a thread through the cached call, the wrapped function
\* taken as a whole.
CacheStep(t) ==
    \/ \E k \in Keys : Lookup(t, k)
    \/ FetchRaises(t)
    \/ Store(t)
    \/ Finish(t)

\* The cache_result decorator under concurrent callers and a moving clock.
NextCache ==
    \/ \E t \in Threads : CacheStep(t)
    \/ \E d \in TickSteps : Tick(d)

SpecCache == Init /\ [][NextCache]_vars

\* ------------------------------------------- query_data: the results page
\* Texts are sequences of characters.  text_content returns None (NoText)
\* or a text, written <<s>>.
MaxRows == 2

NoText == << >>

Txt(s) == <<s>>

Digits == {"0", "1", "2", "5", "7"}

DigitValue(c) ==
    CASE c = "0" -> 0
      [] c = "1" -> 1
      [] c = "2" -> 2
      [] c = "5" -> 5
      [] c = "7" -> 7

RECURSIVE LStrip(_)
LStrip(s) ==
    IF s = << >> THEN s
    ELSE IF Head(s) = " " THEN LStrip(Tail(s)) ELSE s

RECURSIVE RStrip(_)
RStrip(s) ==
    IF s = << >> THEN s
    ELSE IF s[Len(s)] = " " THEN RStrip(SubSeq(s, 1, Len(s) - 1)) ELSE s

\* str.strip()
Strip(s) == RStrip(LStrip(s))

\* str.replace(c, '')
Remove(s, c) == SelectSeq(s, LAMBDA x : x # c)

RECURSIVE NumeralValue(_)
NumeralValue(s) ==
    IF s = << >> THEN 0
    ELSE NumeralValue(SubSeq(s, 1, Len(s) - 1)) * 10 + DigitValue(s[Len(s)])

\* int() and float() take a numeral with blanks around it and raise
\* ValueError for anything else, the empty string included.
CanParse(s) ==
    /\ Strip(s) # << >>
    /\ \A i \in 1..Len(Strip(s)) : Strip(s)[i] \in Digits

ParseNumber(s) == NumeralValue(Strip(s))

\* The guard `... if text else 0` taken as `... if text is not None else 0`.
TruthyIfNotNone(text) == text # NoText

\* Lines 237, 239-241: the guard `... if text else 0`; None and '' are false.
Truthy(text) == text # NoText /\ text[1] # << >>

\* Line 237: total_count_text.strip().replace(',', '')
CountSource(s) == Remove(Strip(s), ",")

\* Lines 239, 240, 251: text.strip().replace(',', '').replace('¥', '')
AmountSource(s) == Remove(Remove(Strip(s), ","), "¥")

\* Line 241: success_rate_text.strip().replace('%', '')
RateSource(s) == Remove(Strip(s), "%")

\* Lines 236-242: the four aggregates, in the order total_count,
\* total_amount, average_amount, success_rate.
FieldSource(i, s) ==
    CASE i = 1 -> CountSource(s)
      [] i = 2 -> AmountSource(s)
      [] i = 3 -> AmountSource(s)
      [] i = 4 -> RateSource(s)

\* The conversion of aggregate i raises ValueError.
FieldRaises(i, text) == Truthy(text) /\ ~CanParse(FieldSource(i, text[1]))

\* The value of aggregate i; success_rate is kept in hundredths (the code
\* divides the parsed number by 100).
FieldValue(i, text) ==
    IF Truthy(text) THEN ParseNumber(FieldSource(i, text[1])) ELSE 0

\* The test of line 248 taken as len(cells) == 5.
ExactlyFiveCells(cells) == Len(cells) = 5

\* Line 248: if len(cells) >= 5
HasEnoughCells(cells) == Len(cells) >= 5

\* Lines 249-255: the record of a row, from cells[0] .. cells[4].
RecordOf(cells) ==
    [id |-> Strip(cells[1]),
     date |-> Strip(cells[2]),
     amount |-> ParseNumber(AmountSource(cells[3])),
     status |-> Strip(cells[4]),
     details |-> Strip(cells[5])]

\* config_v3.py PROFIT_COEFFICIENTS, in tenths: 1.2, 0.8 and 1.0.
HighValueTenths == 12
LowValueTenths == 8
DefaultTenths == 10

\* The thresholds of lines 270 and 272.
HighValueThreshold == 10000
LowValueThreshold == 1000

\* The tiers with the thresholds themselves inside the outer tiers.
ProfitCoefficientInclusive(amount) ==
    IF amount >= HighValueThreshold THEN HighValueTenths
    ELSE IF amount <= LowValueThreshold THEN LowValueTenths
    ELSE DefaultTenths

\* Lines 270-275: the coefficient of an amount, in tenths.
ProfitCoefficient(amount) ==
    IF amount > HighValueThreshold THEN HighValueTenths
    ELSE IF amount < LowValueThreshold THEN LowValueTenths
    ELSE DefaultTenths

\* Lines 267-275: the record with its profit (in tenths of a unit).
WithProfit(r) ==
    [id |-> r.id, date |-> r.date, amount |-> r.amount, status |-> r.status,
     details |-> r.details, profit |-> r.amount * ProfitCoefficient(r.amount)]

\* What the page can hold in an aggregate field: nothing, the empty text,
\* blanks, "1,200", "¥50", "75%", "x".
FieldTexts ==
    {NoText, Txt(<< >>), Txt(<<" ">>), Txt(<<"1", ",", "2", "0", "0">>),
     Txt(<<"¥", "5", "0">>), Txt(<<"7", "5", "%">>), Txt(<<"x">>)}

\* What the page can hold in an amount cell: "500", "1,000", "5000",
\* "¥10,000", "15000 ", "x".
AmountTexts ==
    {<<"5", "0", "0">>, <<"1", ",", "0", "0", "0">>, <<"5", "0", "0", "0">>,
     <<"¥", "1", "0", ",", "0", "0", "0">>, <<"1", "5", "0", "0", "0", " ">>,
     <<"x">>}

CellCounts == {4, 5, 6}

\* A table row of n cells whose third cell holds the text a.
Row(n, a) ==
    SubSeq(<<<<" ", "a">>, <<"d">>, a, <<"s", " ">>, <<"x">>, <<"e">>>>, 1, n)

RowInputs == {Row(n, a) : n \in CellCounts, a \in AmountTexts}

\* Lines 231-234: the four text_content reads, once the results container
\* has appeared.
ReadFields ==
    /\ phase = "start"
    /\ \E texts \in [1..4 -> FieldTexts] : field_texts' = texts
    /\ phase' = "stats"
    /\ UNCHANGED <<appVars, total_stats, rows, results, keyVars, mainVars>>

\* Lines 236-242: total_stats; a ValueError leaves query_data through the
\* finally block (line 260) and the except block (lines 262-264).
ParseStats ==
    /\ phase = "stats"
    /\ IF \E i \in 1..4 : FieldRaises(i, field_texts[i])
       THEN /\ phase' = "raised"
            /\ UNCHANGED <<field_texts, total_stats>>
       ELSE /\ total_stats' = [i \in 1..4 |-> FieldValue(i, field_texts[i])]
            /\ field_texts' = << >>
            /\ phase' = "rows"
    /\ UNCHANGED <<appVars, rows, results, keyVars, mainVars>>

\* Lines 245-257: one turn of the loop over the table rows.
ReadRow ==
    /\ phase = "rows"
    /\ Len(rows) < MaxRows
    /\ \E cells \in RowInputs :
         /\ rows' = Append(rows, cells)
         /\ IF ~HasEnoughCells(cells)
            THEN UNCHANGED <<results, phase>>
            ELSE IF CanParse(AmountSource(cells[3]))
            THEN /\ results' = Append(results, RecordOf(cells))
                 /\ UNCHANGED phase
            ELSE /\ phase' = "raised"
                 /\ UNCHANGED results
    /\ UNCHANGED <<appVars, field_texts, total_stats, keyVars, mainVars>>

\* Lines 266-288: the profit of every record, and the return.
ProcessResults ==
    /\ phase = "rows"
    /\ results' = [i \in 1..Len(results) |-> WithProfit(results[i])]
    /\ phase' = "returned"
    /\ UNCHANGED <<appVars, field_texts, total_stats, rows, keyVars, mainVars>>

InitExtract ==
    /\ InitApp
    /\ phase = "start"
    /\ field_texts = << >>
    /\ total_stats = << >>
    /\ rows = << >>
    /\ results = << >>
    /\ KeyIdle
    /\ MainServing

NextExtract ==
    \/ ReadFields
    \/ ParseStats
    \/ ReadRow
    \/ ProcessResults

\* query_data reading and processing one results page.
SpecExtract == InitExtract /\ [][NextExtract]_vars

\* ------------------------------------------------ cache_result: cache_key
MaxBlocks == 1

\* The pieces parameter texts are put together from: a letter, a blank,
\* and the four characters ', ' that separate two items of a printed tuple.
Blocks == {<<"a">>, <<" ">>, <<"'", ",", " ", "'">>}

RECURSIVE TextsUpTo(_)
TextsUpTo(n) ==
    IF n = 0 THEN {<< >>}
    ELSE LET S == TextsUpTo(n - 1) IN S \cup {s \o b : s \in S, b \in Blocks}

\* project_id and uk_code of a request.
IdTexts == TextsUpTo(MaxBlocks)

\* start_date and end_date of a request: "2024-01-01" and "2024-1-1".
DateTexts ==
    {<<"2", "0", "2", "4", "-", "0", "1", "-", "0", "1">>,
     <<"2", "0", "2", "4", "-", "1", "-", "1">>}

\* The positional arguments api_query passes to query_data (line 338).
ArgTuples == IdTexts \X IdTexts \X DateTexts \X DateTexts

HasChar(s, c) == \E i \in 1..Len(s) : s[i] = c

\* repr of a str: double quotes when the text holds ' and no ", single
\* quotes otherwise.
ReprQuote(s) == IF HasChar(s, "'") /\ ~HasChar(s, "\"") THEN "\"" ELSE "'"

\* repr of a str: the quote in use and the backslash are escaped.
RECURSIVE Escaped(_, _)
Escaped(s, q) ==
    IF s = << >> THEN << >>
    ELSE (IF Head(s) \in {q, "\\"} THEN <<"\\", Head(s)>> ELSE <<Head(s)>>)
         \o Escaped(Tail(s), q)

\* The text between single quotes, nothing escaped.
ReprNaive(s) == <<"'">> \o s \o <<"'">>

\* repr(s), which str(args) applies to every item of the tuple.
Repr(s) == <<ReprQuote(s)>> \o Escaped(s, ReprQuote(s)) \o <<ReprQuote(s)>>

\* str(args) of the four positional arguments.
StrOfArgs(args) ==
    <<"(">> \o Repr(args[1]) \o <<",", " ">> \o Repr(args[2]) \o <<",", " ">>
            \o Repr(args[3]) \o <<",", " ">> \o Repr(args[4]) \o <<")">>

\* Line 131: f"{func.__name__}:{str(args)}:{str(kwargs)}", kwargs empty.
CacheKey(args) == <<"query_data", ":">> \o StrOfArgs(args) \o <<":", "{", "}">>

\* Lines 129-131: a call of the wrapped query_data derives its cache_key.
DeriveKey(args) ==
    /\ Len(call_args) < 2
    /\ call_args' = Append(call_args, args)
    /\ cache_keys' = Append(cache_keys, CacheKey(args))
    /\ UNCHANGED <<appVars, extractVars, mainVars>>

NextKey == \E args \in ArgTuples : DeriveKey(args)

\* Two calls of query_data through cache_result.
SpecKey == Init /\ [][NextKey]_vars

\* -------------------------------------------------------------- api_query
\* A field of the request's JSON body is absent (NoText, what data.get
\* returns for it) or a text.  Complete requests differ in project_id, the
\* text of k letters standing for cache_key k.
ProjectIdTexts == {NoText, Txt(<< >>)} \cup {Txt([i \in 1..k |-> "p"]) : k \in Keys}

ParamTexts == {NoText, Txt(<< >>), Txt(<<"v">>)}

\* The four query parameters of the body of a POST /api/query.
Requests ==
    [project_id : ProjectIdTexts, uk_code : ParamTexts, start_date : ParamTexts,
     end_date : ParamTexts]

\* The test of line 322 without end_date.
AllButEndDatePresent(req) ==
    Truthy(req.project_id) /\ Truthy(req.uk_code) /\ Truthy(req.start_date)

\* Line 322: all([project_id, uk_code, start_date, end_date]); an empty
\* body (line 304) has none of them.
AllPresent(req) ==
    /\ Truthy(req.project_id)
    /\ Truthy(req.uk_code)
    /\ Truthy(req.start_date)
    /\ Truthy(req.end_date)

\* The cache_key of a complete request.
KeyOfRequest(req) == Len(req.project_id[1])

\* Lines 305-310, 323-328, 331-336: api_query answers the request of
\* thread t with status s before it calls query_data.
Reject(t, s) ==
    /\ op' = [op EXCEPT ![t] = "query"]
    /\ Respond(t, s, 0, "none")
    /\ UNCHANGED <<browserVars, browser_lock, cacheVars, clockVars, extVars,
                   localVars, key, ctxVars>>

\* Lines 299-341: api_query on the request req, up to the look-up of the
\* cached query_data; authorized is what validate_api_key (lines 185-189)
\* says of the request's auth_key and app_id.
ApiQuery(t, req) ==
    /\ pc[t] = "idle"
    /\ IF ~AllPresent(req) THEN Reject(t, 400)
       ELSE \E authorized \in BOOLEAN :
              IF ~authorized THEN Reject(t, 401)
              ELSE Lookup(t, KeyOfRequest(req))

\* One step of a thread through /api/query.
ApiStep(t) ==
    \/ \E req \in Requests : ApiQuery(t, req)
    \/ FetchRaises(t)
    \/ Store(t)
    \/ Finish(t)

NextApi == \E t \in Threads : ApiStep(t)

\* Concurrent POST /api/query requests, complete or not.
SpecApi == Init /\ [][NextApi]_vars

\* ------------------------------------------------------- the main program
\* Lines 414-417: the main program calls init_playwright before the server
\* starts.  A failure of start() or launch() is re-raised (line 84), caught
\* on line 425, and the finally block follows; on success app.run serves.
MainStartup ==
    /\ main_pc = "boot"
    /\ \/ /\ launches < MaxLaunch
          /\ playwright_instance' = 1
          /\ browser_instance' = launches + 1
          /\ is_connected' = TRUE
          /\ launches' = launches + 1
          /\ main_pc' = "serving"
       \/ /\ UNCHANGED <<browserVars>>
          /\ main_pc' = "finally"
       \/ /\ \E stopRaised \in BOOLEAN :
                playwright_instance' = HandleAfterFailedLaunch(1, stopRaised)
          /\ UNCHANGED <<browser_instance, is_connected, launches>>
          /\ main_pc' = "finally"
    /\ UNCHANGED <<browser_lock, cacheVars, clockVars, pc, op, key, fid, cause,
                   status, result, stale, localVars, ctxVars, extractVars,
                   keyVars, cleanups>>

\* Lines 420-427: app.run returns or raises; either way the finally block
\* is next.
ServerReturns ==
    /\ main_pc = "serving"
    /\ main_pc' = "finally"
    /\ UNCHANGED <<appVars, extractVars, keyVars, cleanups>>

\* Lines 428-430: the finally block calls cleanup().
FinallyCleanup ==
    /\ main_pc = "finally"
    /\ cleanups' = cleanups + 1
    /\ main_pc' = "closing"
    /\ UNCHANGED <<appVars, extractVars, keyVars>>

\* Line 411: the interpreter exits and runs the function registered with
\* atexit, cleanup().
AtexitCleanup ==
    /\ main_pc = "atexit"
    /\ cleanups' = cleanups + 1
    /\ main_pc' = "closing_atexit"
    /\ UNCHANGED <<appVars, extractVars, keyVars>>

\* Lines 87-106 run by the main thread for cleanup(): close_playwright
\* takes browser_lock, closes what there is and clears both handles.
MainClosePlaywright ==
    /\ main_pc \in {"closing", "closing_atexit"}
    /\ browser_lock = NoThread
    /\ \E closeRaised, stopRaised \in BOOLEAN :
         /\ browser_instance' = HandleAfterClose(browser_instance, closeRaised)
         /\ playwright_instance' = HandleAfterClose(playwright_instance, stopRaised)
    /\ is_connected' = FALSE
    /\ main_pc' = IF main_pc = "closing" THEN "atexit" ELSE "exited"
    /\ UNCHANGED <<launches, browser_lock, cacheVars, clockVars, pc, op, key,
                   fid, cause, status, result, stale, localVars, ctxVars,
                   extractVars, keyVars, cleanups>>

\* The module run as the main program, before any request.
InitMain ==
    /\ InitApp
    /\ ExtractIdle
    /\ KeyIdle
    /\ main_pc = "boot"
    /\ cleanups = 0

\* The request threads run while app.run serves.
Serving == main_pc = "serving" /\ Next

NextMain ==
    \/ MainStartup
    \/ Serving
    \/ ServerReturns
    \/ FinallyCleanup
    \/ MainClosePlaywright
    \/ AtexitCleanup

\* python app_v3.py from start to interpreter exit.
SpecMain == InitMain /\ [][NextMain]_vars

\* ================================================================ claims
InInit(t) == pc[t] \in {"init", "launch"}

AtMostOneInInit ==
    \A t, u \in Threads : (InInit(t) /\ InInit(u)) => t = u

LaunchOnlyWhenUnusable ==
    launches' > launches => (browser_instance = None \/ ~is_connected)

\* C1: under any interleaving of concurrent get_browser_context calls, two
\* callers are never inside init_playwright at the same time, and a browser
\* is launched only while the shared instance is missing or disconnected
\* (no second launch while the first instance is still connected).
C1_SingleLaunch == []AtMostOneInInit /\ [][LaunchOnlyWhenUnusable]_vars

\* C1 witness: one caller is launching the first browser while another
\* caller of get_browser_context waits for the lock.
C1_Witness ==
    \E t, u \in Threads :
        /\ t # u
        /\ pc[t] = "launch" /\ browser_lock = t /\ launches = 0
        /\ pc[u] = "call" /\ op[u] = "query"

\* C2: a get_browser_context call that found the shared instance present
\* but disconnected creates its context only after that instance has been
\* replaced by a newly launched one.
C2_RelaunchBeforeContext ==
    \A t \in Threads :
        (pc[t] = "new_context" /\ stale[t] # None)
            => browser_instance # stale[t]

\* C3: a health check that found the browser missing or disconnected
\* terminates with a response.
C3_HealthCheckTerminates ==
    \A t \in Threads : (pc[t] = "h_lock") ~> (pc[t] = "done")

\* Thread t makes the cached call for key k in this step.
LooksUp(t, k) ==
    pc[t] = "idle" /\ pc'[t] # "idle" /\ op'[t] = "query" /\ key'[t] = k

\* The cached call of thread t returns in this step from the stored entry.
ServedFromCache(t, k) ==
    /\ pc'[t] = "done" /\ status'[t] = 200
    /\ result'[t] = query_cache[k][1]
    /\ nfetch' = nfetch
    /\ query_cache' = query_cache

\* The cached call of thread t calls the wrapped function in this step.
InvokesFetch(t) ==
    /\ pc'[t] = "call"
    /\ nfetch' = nfetch + 1
    /\ fid'[t] = nfetch + 1
    /\ query_cache' = query_cache

\* The wrapped function of thread t returns and its result is stored.
Stores(t) == pc[t] = "call" /\ pc'[t] = "done" /\ status'[t] = 200

C4_Step ==
    \A t \in Threads :
        /\ \A k \in Keys :
               (/\ LooksUp(t, k)
                /\ k \in DOMAIN query_cache
                /\ now - query_cache[k][2] < Timeout)
                   => ServedFromCache(t, k)
        /\ Stores(t) =>
               /\ key[t] \in DOMAIN query_cache'
               /\ query_cache'[key[t]][1] = result'[t]
               /\ now' - query_cache'[key[t]][2] < Timeout
               /\ nfetch' = nfetch

\* C4: a call whose key has an entry younger than the timeout returns the
\* stored result without invoking the wrapped function; and a call that
\* did invoke it leaves its result as a fresh entry, so that the next call
\* with the key inside the window is such a hit (one fetch for the two
\* calls, the same result twice).
C4_HitServesStored == [][C4_Step]_vars

\* C4 witness: two calls with the same key have returned the same result,
\* one of them from the cache, after a single fetch.
C4_Witness ==
    \E t, u \in Threads :
        /\ t # u
        /\ pc[t] = "done" /\ pc[u] = "done"
        /\ key[t] = key[u]
        /\ found[t] = "hit" /\ found[u] # "hit"
        /\ result[t] = result[u] /\ result[t] # 0
        /\ nfetch = 1

C5_Step ==
    \A t \in Threads :
        /\ \A k \in Keys :
               (LooksUp(t, k) /\ k \in DOMAIN query_cache) =>
                   /\ now - query_cache[k][2] < Timeout => ServedFromCache(t, k)
                   /\ now - query_cache[k][2] > Timeout => InvokesFetch(t)
        /\ (Stores(t) /\ found[t] = "expired") =>
               /\ key[t] \in DOMAIN query_cache'
               /\ query_cache'[key[t]] = <<fid[t], now>>
               /\ result'[t] = fid[t]
               /\ key[t] \in DOMAIN query_cache =>
                      /\ query_cache'[key[t]][1] # query_cache[key[t]][1]
                      /\ query_cache'[key[t]][2] >= query_cache[key[t]][2]

\* C5: an entry stored at T is served by every call at t with
\* t - T < timeout; a call at t with t - T > timeout is a miss that invokes
\* the wrapped function, and when that returns the entry is replaced by
\* the new result with the time of the store.
C5_ExpiryBoundary == [][C5_Step]_vars

\* C5 witness: a call that found its key's entry expired has fetched and
\* stored a new result under the key.
C5_Witness ==
    \E t \in Threads :
        /\ pc[t] = "done" /\ found[t] = "expired" /\ status[t] = 200
        /\ key[t] \in DOMAIN query_cache
        /\ query_cache[key[t]] = <<result[t], now>>
        /\ result[t] = 2

C6_Step ==
    \A t, u \in Threads : \A k \in Keys :
        (/\ t # u
         /\ pc[u] = "call" /\ key[u] = k
         /\ k \notin DOMAIN query_cache
         /\ LooksUp(t, k))
            => (InvokesFetch(t) /\ fid'[t] # fid[u])

\* C6: a call that looks up a key with no entry while another call with
\* the same key is still inside the wrapped function invokes the wrapped
\* function too: the two concurrent misses make two invocations.
C6_ConcurrentMissesBothFetch == [][C6_Step]_vars

\* C6 witness: two threads are inside the wrapped function for the same
\* key at once, with two invocations counted.
C6_Witness ==
    \E t, u \in Threads :
        /\ t # u
        /\ pc[t] = "call" /\ pc[u] = "call"
        /\ key[t] = key[u] /\ key[t] \in Keys
        /\ key[t] \notin DOMAIN query_cache
        /\ fid[t] # fid[u]
        /\ nfetch = 2

\* C7: when query_data has returned or raised, the context and the page it
\* opened are closed, whatever the path: success, navigation timeout,
\* results marker absent, parsing exception, browser gone.
C7_ContextsReleased ==
    \A t \in Threads :
        pc[t] \in {"done", "idle"} => (ctx[t] = None /\ page[t] = FALSE)

\* C7 witness: a query whose extraction raised partway has ended while the
\* browser its context came from is still running.
C7_Witness ==
    \E t \in Threads :
        /\ pc[t] = "done" /\ op[t] = "query" /\ cause[t] = "parse_error"
        /\ browser_instance # None /\ is_connected
        /\ ctx[t] = None /\ page[t] = FALSE

\* C8: /api/query answers a browser-launch failure or a navigation timeout
\* with 408, and a missing results marker or any other exception with 500.
C8_TimeoutStatus ==
    \A t \in Threads :
        (pc[t] = "done" /\ op[t] = "query" /\ cause[t] # "none") =>
            IF cause[t] \in {"launch_fail", "nav_timeout"}
            THEN status[t] = 408
            ELSE status[t] = 500

C9_Step ==
    \A t \in Threads :
        (/\ op[t] = "query"
         /\ InInit(t)
         /\ pc'[t] = "done"
         /\ cause'[t] = "launch_fail")
            => (browser_lock' = NoThread /\ playwright_instance' = None)

\* C9: a get_browser_context call whose launch fails raises and leaves the
\* manager free and with no runtime handle, the state in which the next
\* call's init_playwright launches again.
C9_FailedLaunchRetries == [][C9_Step]_vars

InClose(t) == pc[t] \in {"close_browser", "close_pw"}

C10_Step ==
    \A t \in Threads :
        /\ (pc[t] = "close_pw" /\ pc'[t] # "close_pw") =>
               /\ browser_instance' = None
               /\ playwright_instance' = None
               /\ browser_lock' = NoThread
               /\ op[t] = "cleanup" => (pc'[t] = "done" /\ cause'[t] = "none")
        /\ (/\ InClose(t) /\ pc'[t] # pc[t]
            /\ browser_instance = None /\ playwright_instance = None) =>
               UNCHANGED <<playwright_instance, browser_instance,
                           is_connected, launches>>

\* C10: close_playwright returns without raising and with both handles
\* empty, also when close() or stop() raised; called with both handles
\* empty it changes neither handle nor the browser, so a second call in a
\* row leaves the state of the first.
C10_CloseIdempotent == [][C10_Step]_vars

\* C10 witness: two cleanups have run to the end after a browser had been
\* launched, and both handles are empty.
C10_Witness ==
    \E t, u \in Threads :
        /\ t # u
        /\ pc[t] = "done" /\ op[t] = "cleanup"
        /\ pc[u] = "done" /\ op[u] = "cleanup"
        /\ launches > 0
        /\ browser_instance = None /\ playwright_instance = None

\* C11: every returned record's profit is its amount times the coefficient
\* of its tier: high-value above 10000, low-value below 1000, default
\* otherwise; amounts of exactly 10000 and exactly 1000 take the default
\* coefficient.
C11_ProfitTiers ==
    phase = "returned" =>
        \A i \in 1..Len(results) :
            LET a == results[i].amount
                p == results[i].profit
            IN  /\ a > 10000 => p = a * HighValueTenths
                /\ a < 1000 => p = a * LowValueTenths
                /\ (a >= 1000 /\ a <= 10000) => p = a * DefaultTenths
                /\ a = 10000 => p = 100000
                /\ a = 1000 => p = 10000

\* A page with an amount of exactly 10000 and one of exactly 1000 has been
\* processed.
C11_Witness ==
    /\ phase = "returned"
    /\ \E i, j \in 1..Len(results) :
         /\ results[i].amount = 10000
         /\ results[j].amount = 1000

\* C12: the records are exactly the rows with at least five cells, in
\* their order in the table, each built from the first five cells of its
\* row; a shorter row gives no record and no error.
C12_RecordsAreLongRows ==
    phase \in {"rows", "returned"} =>
        LET kept == SelectSeq(rows, LAMBDA c : Len(c) >= 5)
        IN  /\ Len(results) = Len(kept)
            /\ \A j \in 1..Len(results) :
                 /\ results[j].id = Strip(kept[j][1])
                 /\ results[j].date = Strip(kept[j][2])
                 /\ results[j].amount = ParseNumber(AmountSource(kept[j][3]))
                 /\ results[j].status = Strip(kept[j][4])
                 /\ results[j].details = Strip(kept[j][5])
                 /\ DOMAIN results[j] \subseteq
                        {"id", "date", "amount", "status", "details", "profit"}

\* A table of a four-cell row and a six-cell row has been returned as one
\* record.
C12_Witness ==
    /\ phase = "returned"
    /\ \E i, j \in 1..Len(rows) : Len(rows[i]) = 4 /\ Len(rows[j]) = 6
    /\ Len(results) = 1

C13_Step ==
    (phase = "stats" /\ phase' # "stats") =>
        \A i \in 1..4 :
            (field_texts[i] = NoText \/ field_texts[i] = Txt(<< >>)) =>
                LET numeric(j) ==
                        IF j = 4 THEN Txt(<<"7", "5", "%">>)
                        ELSE Txt(<<"1", ",", "2", "0", "0">>)
                    value(j) == IF j = 4 THEN 75 ELSE 1200
                    others == (1..4) \ {i}
                    blank(j) == field_texts[j] \in {NoText, Txt(<< >>)}
                IN  /\ phase' = "rows" => total_stats'[i] = 0
                    /\ (\A j \in others : blank(j) \/ field_texts[j] = numeric(j))
                         => /\ phase' = "rows"
                            /\ \A j \in others :
                                 total_stats'[j] = IF blank(j) THEN 0 ELSE value(j)

C14_ParsingFaultsTolerated == phase # "raised"

\* C15: two calls have the same cache_key, and so share a cache entry,
\* exactly when their four parameters are equal character by character.
C15_KeyIffSameParameters ==
    Len(cache_keys) = 2 =>
        ((cache_keys[1] = cache_keys[2]) <=> (call_args[1] = call_args[2]))

\* Two calls that differ only by a blank in project_id have got different
\* keys.
C15_Witness ==
    /\ Len(cache_keys) = 2
    /\ call_args[1][1] = << >>
    /\ call_args[2][1] = <<" ">>
    /\ \A i \in 2..4 : call_args[1][i] = call_args[2][i]
    /\ cache_keys[1] # cache_keys[2]

C16_Step ==
    \A t \in Threads :
        (pc[t] = "idle" /\ pc'[t] # "idle") =>
            \/ /\ pc'[t] = "done"
               /\ status'[t] = 400
               /\ fid'[t] = 0
               /\ UNCHANGED <<query_cache, nfetch, browserVars, browser_lock, ctxVars>>
            \/ \A req \in Requests :
                  (\E f \in {"project_id", "uk_code", "start_date", "end_date"} :
                       req[f] = NoText \/ req[f] = Txt(<< >>))
                  => ~ApiQuery(t, req)

C17_Step ==
    /\ \A t \in Threads :
           Stores(t) =>
               \A k \in DOMAIN query_cache' : now' - query_cache'[k][2] <= Timeout
    /\ (\E k \in DOMAIN query_cache : k \notin DOMAIN query_cache')
           => \E t \in Threads : Stores(t)

\* C17: right after every store no entry whose age at the time of the
\* store exceeds the timeout is left, under any key; and an entry leaves
\* the cache only in a store, never by the passing of time.
C17_StoreSweepsExpired == [][C17_Step]_vars

\* C17 witness: a store under one key has removed the expired entry another
\* call had left under a different key.
C17_Witness ==
    \E t, u \in Threads :
        /\ t # u
        /\ pc[t] = "done" /\ status[t] = 200 /\ found[t] # "hit"
        /\ pc[u] = "done" /\ status[u] = 200
        /\ key[u] # key[t]
        /\ key[t] \in DOMAIN query_cache
        /\ key[u] \notin DOMAIN query_cache

\* A look-up or a store by some thread.
CacheAccess ==
    \E t \in Threads : (\E k \in Keys : LooksUp(t, k)) \/ Stores(t)

\* C18 as stated: after any access of the cache, a look-up that hits
\* included, no entry with now - timestamp >= timeout is left.
C18_AccessPurgesInvalid ==
    [][CacheAccess =>
          \A k \in DOMAIN query_cache' : now' - query_cache'[k][2] < Timeout]_vars

C18_Step ==
    \A t \in Threads :
        /\ \A k \in Keys : LooksUp(t, k) => query_cache' = query_cache
        /\ Stores(t) =>
               \A k \in DOMAIN query_cache \ {key[t]} :
                   /\ k \in DOMAIN query_cache' <=> now - query_cache[k][2] <= Timeout
                   /\ k \in DOMAIN query_cache' => query_cache'[k] = query_cache[k]

\* C18 amended: a look-up, hit or miss, removes nothing; a store removes
\* from the other keys exactly the entries older than the timeout, so an
\* entry of age timeout or more can outlive a look-up and one of age
\* exactly timeout a store.
C18_OnlyStoreSweeps == [][C18_Step]_vars

\* C18 witness: a look-up has found its key's entry expired and the entry,
\* no longer valid, is still in the cache.
C18_Witness ==
    \E t \in Threads :
        /\ pc[t] = "call"
        /\ found[t] = "expired"
        /\ key[t] \in DOMAIN query_cache
        /\ now - query_cache[key[t]][2] >= Timeout

\* C19 as stated: a caller of get_browser_context that finds a connected
\* browser goes on to create its context without holding the lock.
C19_LockOnlyForInit ==
    [][\A t \in Threads :
          (pc[t] = "call" /\ pc'[t] = "new_context") => browser_lock' # t]_vars

\* C19 amended: whoever is creating a context holds browser_lock, so no two
\* callers are creating their contexts at the same time, connected browser
\* or not.
C19_ContextCreationSerialized ==
    \A t, u \in Threads :
        pc[t] = "new_context" =>
            /\ browser_lock = t
            /\ pc[u] = "new_context" => u = t

\* C19 witness: one caller is creating its context, under the lock, from
\* the connected browser another caller's open context belongs to.
C19_Witness ==
    \E t, u \in Threads :
        /\ t # u
        /\ pc[t] = "new_context" /\ browser_lock = t
        /\ pc[u] = "in_context" /\ ctx[u] = browser_instance
        /\ is_connected

\* C20: when the main program has exited, cleanup has been called exactly
\* once, after a normal return of the server as after a failed start.
C20_CleanupOnce == main_pc = "exited" => cleanups = 1

\* C21: a thread waiting for browser_lock (in get_browser_context, in
\* health_check or in close_playwright) is never the thread that holds it.
C21_NoSelfAcquire ==
    \A t \in Threads :
        pc[t] \in {"call", "h_lock", "close_lock"} => browser_lock # t

\* C22: every step of init_playwright that writes a shared handle (the
\* start of the runtime, the launch of a browser) is taken while
\* browser_lock is held.
C22_InitUnderLock ==
    [][((playwright_instance = None /\ playwright_instance' # None)
           \/ launches' > launches)
          => browser_lock # NoThread]_vars

\* The wrapped function of thread t raises in this step.
FetchFails(t) == pc[t] = "call" /\ pc'[t] = "done" /\ status'[t] # 200

C23_Step ==
    \A t \in Threads :
        /\ FetchFails(t) =>
               /\ query_cache' = query_cache
               /\ cause'[t] # "none"
               /\ status'[t] = 500
               /\ result'[t] = 0
        /\ \A k \in Keys :
               (/\ LooksUp(t, k)
                /\ (k \notin DOMAIN query_cache \/ now - query_cache[k][2] >= Timeout))
                   => InvokesFetch(t)

\* C23: a cached call whose fetch raises leaves the cache exactly as it
\* was, nothing stored and nothing evicted, and the caller gets the error;
\* a later call whose key has no valid entry invokes the fetch.
C23_FailedFetchLeavesCache == [][C23_Step]_vars

\* C23 witness: the fetch for a key whose entry had expired has raised, and
\* the expired entry is still in the cache.
C23_Witness ==
    \E t \in Threads :
        /\ pc[t] = "done" /\ status[t] = 500 /\ found[t] = "expired"
        /\ key[t] \in DOMAIN query_cache
        /\ now - query_cache[key[t]][2] > Timeout

\* C24: right after a store every entry left in the cache is younger than
\* the timeout, so that a look-up at that instant would serve it.
C24_RemainingEntriesAreHits ==
    [][\A t \in Threads :
          Stores(t) =>
              \A k \in DOMAIN query_cache' : now' - query_cache'[k][2] < Timeout]_vars

\* C25: while no thread is inside init_playwright or close_playwright, the
\* browser handle is set exactly when the runtime handle is.
C25_HandlesTogether ==
    (\A t \in Threads : ~InInit(t) /\ ~InClose(t)) =>
        (browser_instance # None <=> playwright_instance # None)

====
